---------------------------- MODULE Spec2Model ----------------------------
(***************************************************************************)
(* A model of mmms (src/src/lib.rs): a monome-grid step sequencer.         *)
(*                                                                         *)
(*   GridStateTracker  button intents, down / up                           *)
(*   VirtualGrid       logical grid, viewport offsets, tick/mouve/resize   *)
(*   MMMS::input       dispatch of the tracker's actions, message sending  *)
(*   MMMSRenderer      message drain, trigger and pitch sweeps, clock      *)
(*                                                                         *)
(* Option<T> is modelled as a sequence: None is << >>, Some(v) is <<v>>.   *)
(* A Pitch is modelled by the scale index it was resolved from             *)
(* (Scale::idx_to_pitch(i) is the pitch "i").                              *)
(* A panic (failed assertion, failed index, arithmetic overflow in a build *)
(* with overflow checks) is recorded in the variable panicked; a process   *)
(* that panicked takes no further step.                                    *)
(***************************************************************************)
EXTENDS Integers, Sequences, FiniteSets, TLC

VARIABLES
    buttons,      \* GridStateTracker.buttons: index -> "Nothing" | "Tick"
    ret,          \* the MMMSAction returned by the last GridStateTracker::up
    held,         \* history: cells with a down since the last up of that cell
    last,         \* history: the last tracker call and what preceded it
    width,        \* VirtualGrid.width
    height,       \* VirtualGrid.height
    offset_x,     \* VirtualGrid.offset_x
    offset_y,     \* VirtualGrid.offset_y
    grid,         \* VirtualGrid.grid: sequence (0-based here: grid[c+1]) of Option<u8>
    lastOp,       \* history: the last VirtualGrid operation (see GridOp)
    chan,         \* the mpsc channel: messages sent and not yet received
    steps,        \* MMMSRenderer.steps: sequence of Option<Pitch>
    prev_pitch,   \* MMMSRenderer.prev_pitch, as Option of a pitch (None: 0.0)
    samples,      \* the audio clock's sample counter
    trigger_port, \* MMMSRenderer.trigger_port (kind of BelaPort)
    pitch_port,   \* MMMSRenderer.pitch_port (kind of BelaPort)
    trigger_out,  \* trigger samples written by the last render call
    pitch_out,    \* pitch samples written by the last render call
    block,        \* history: the context and start position of the last render call
    sent,         \* history: every message ever sent, in send order
    applied,      \* history: every message drained by render, in drain order
    renders,      \* history: number of render calls so far
    sentAtFirst,  \* history: number of messages sent before the first render call
    pre,          \* history: steps before the last render call's drain
    nOps,         \* history: number of control-plane operations so far
    connected,    \* the channel's Sender (owned by MMMS) has not been dropped
    tempo,        \* MMMSRenderer.tempo
    scale,        \* MMMSRenderer.scale
    blocks,       \* history: the frame counts of the render calls that returned
    self_height,  \* MMMS.height: the height MMMS::new was given
    display,      \* the buffer the last InstrumentControl::render call wrote
    frame,        \* history: the last display refresh (see Refresh)
    panicked      \* "no", or the place of the panic

vars == << buttons, ret, held, last, width, height, offset_x, offset_y, grid,
           lastOp, chan, steps, prev_pitch, samples, trigger_port, pitch_port,
           trigger_out, pitch_out, block, sent, applied, renders, sentAtFirst,
           pre, nOps, connected, tempo, scale, blocks, self_height, display,
           frame, panicked >>

trackerVars == << buttons, ret, held, last >>
gridVars    == << width, height, offset_x, offset_y, grid >>
renderVars  == << chan, steps, prev_pitch, samples, trigger_port, pitch_port,
                  trigger_out, pitch_out, block, sent, applied, renders,
                  sentAtFirst, pre, connected, tempo, scale, blocks >>
displayVars == << self_height, display, frame >>

----------------------------------------------------------------------------
(* Program constants *)

\* const INITIAL_STEPS: usize = 32
INITIAL_STEPS == 32

\* GridStateTracker::new(16, 8): the physical grid
TRACKER_WIDTH == 16
TRACKER_HEIGHT == 8

\* the viewport: 16 columns, 7 musical rows (literals of mouve, viewport, in_view)
VIEW_W == 16
VIEW_H == 7

\* isize::MAX of the 32-bit target the Bela board is (armv7)
ISIZE_MAX == 2147483647

\* the u8 of grid: SmallVec<[Option<u8>; MAX_STEPS]>
U8_RANGE == 256

\* Scale::octave_note_count() of the minor pentatonic scale
OCTAVE_NOTE_COUNT == 5

----------------------------------------------------------------------------
(* Bounds of the model *)

\* Scale::note_count() of the scale built at construction: the scale provider
\* is an external crate, the value is a parameter of the model.  current_octave
\* is documented to range over 0..8, which takes 8 octaves of 5 notes above
\* the 7 rows of the viewport.
NoteCount == 47

\* at most this many buttons are held down at a time
MaxHeld == 2

----------------------------------------------------------------------------
(* Option *)

None == << >>
Some(v) == << v >>
is_some(o) == o # None
unwrap(o) == o[1]

Min(a, b) == IF a < b THEN a ELSE b

\* pub fn clamp(input, min, max)
clamp(input, lo, hi) ==
    IF input < lo THEN lo ELSE IF input > hi THEN hi ELSE input

----------------------------------------------------------------------------
(* MMMSAction *)

ActNothing     == << "Nothing", 0, 0 >>
ActTick(x, y)  == << "Tick", x, y >>
ActMove(x, y)  == << "Move", x, y >>
ActResize(n)   == << "Resize", n, 0 >>

----------------------------------------------------------------------------
(* GridStateTracker *)

\* fn idx(width, x, y)
idx(w, x, y) == y * w + x

\* GridStateTracker::new(16, 8): every intent is Nothing
NewButtons == [i \in 0 .. (TRACKER_WIDTH * TRACKER_HEIGHT - 1) |-> "Nothing"]

\* a mutant: shift read from the wrong column
shift_down_col14(b) == b[idx(TRACKER_WIDTH, 14, 0)] # "Nothing"

\* fn shift_down(&self)
shift_down(b) == b[idx(TRACKER_WIDTH, 15, 0)] # "Nothing"

\* fn down(&mut self, x, y): the buttons after the call
down(b, x, y) ==
    IF y = 0
    THEN IF x = 15
         THEN [b EXCEPT ![idx(TRACKER_WIDTH, x, y)] = "Tick"]
         ELSE [b EXCEPT ![idx(TRACKER_WIDTH, x, y)] = "Nothing"]
    ELSE [b EXCEPT ![idx(TRACKER_WIDTH, x, y)] = "Tick"]

\* a mutant: a release on a musical row ticks whatever the recorded intent
up_always_ticks(b, x, y) ==
    LET b1 == [b EXCEPT ![idx(TRACKER_WIDTH, x, y)] = "Nothing"] IN
    IF y = 0
    THEN [buttons |-> b1,
          action  |-> IF ~shift_down(b1)
                      THEN CASE x = 8  -> ActMove(-16, 0)
                             [] x = 9  -> ActMove(16, 0)
                             [] x = 10 -> ActMove(0, -1)
                             [] x = 11 -> ActMove(0, 1)
                             [] OTHER  -> ActNothing
                      ELSE CASE x = 8  -> ActResize(1)
                             [] x = 9  -> ActResize(2)
                             [] x = 10 -> ActResize(4)
                             [] x = 11 -> ActResize(8)
                             [] OTHER  -> ActNothing]
    ELSE [buttons |-> b1, action |-> ActTick(x, y - 1)]

\* fn up(&mut self, x, y) -> MMMSAction: the buttons after the call and the
\* action returned.  The first statement clears the cell's intent; the
\* musical-row branch then reads the intent of that same cell.
up(b, x, y) ==
    LET b1 == [b EXCEPT ![idx(TRACKER_WIDTH, x, y)] = "Nothing"] IN
    IF y = 0
    THEN [buttons |-> b1,
          action  |-> IF ~shift_down(b1)
                      THEN CASE x = 8  -> ActMove(-16, 0)
                             [] x = 9  -> ActMove(16, 0)
                             [] x = 10 -> ActMove(0, -1)
                             [] x = 11 -> ActMove(0, 1)
                             [] OTHER  -> ActNothing
                      ELSE CASE x = 8  -> ActResize(1)
                             [] x = 9  -> ActResize(2)
                             [] x = 10 -> ActResize(4)
                             [] x = 11 -> ActResize(8)
                             [] OTHER  -> ActNothing]
    ELSE IF b1[idx(TRACKER_WIDTH, x, y)] = "Nothing"
         THEN [buttons |-> b1, action |-> ActNothing]
         ELSE [buttons |-> [b1 EXCEPT ![idx(TRACKER_WIDTH, x, y)] = "Nothing"],
               action  |-> ActTick(x, y - 1)]

----------------------------------------------------------------------------
(* VirtualGrid *)

\* the VirtualGrid as one value
VG == [width |-> width, height |-> height, offset_x |-> offset_x,
       offset_y |-> offset_y, grid |-> grid]

\* element c (0-based) of a SmallVec
at(s, c) == s[c + 1]

\* SmallVec::resize(new_len, value): truncates, or appends copies of value
vec_resize(s, n, v) == [i \in 1 .. n |-> IF i <= Len(s) THEN s[i] ELSE v]

\* y as u8
as_u8(y) == y % U8_RANGE

\* fn new() -> VirtualGrid
VirtualGrid_new ==
    [width    |-> INITIAL_STEPS,
     height   |-> NoteCount,
     offset_x |-> 0,
     offset_y |-> NoteCount - OCTAVE_NOTE_COUNT * 3 - 7,
     grid     |-> vec_resize(<< >>, INITIAL_STEPS, None)]

\* a + b in isize overflows
add_overflows(a, b) == b > 0 /\ a > ISIZE_MAX - b

\* a + b wrapped to isize, for a >= 0 (the sum is below 2^32)
wrapping_add(a, b) ==
    IF add_overflows(a, b)
    THEN ((a - ISIZE_MAX) + (b - ISIZE_MAX)) - 2
    ELSE a + b

\* fn mouve in a build with overflow checks (debug): an isize addition that
\* overflows panics; offset_x is assigned before offset_y is computed
mouve_checked(g, x, y) ==
    LET gx == [g EXCEPT !.offset_x =
                   clamp(g.offset_x + x, 0, g.width - VIEW_W)]
    IN  IF add_overflows(g.offset_x, x)
        THEN [panic |-> "mouve: attempt to add with overflow", g |-> g]
        ELSE IF add_overflows(g.offset_y, y)
        THEN [panic |-> "mouve: attempt to add with overflow", g |-> gx]
        ELSE [panic |-> "no",
              g |-> [gx EXCEPT !.offset_y =
                        clamp(g.offset_y + y, 0, g.height - VIEW_H)]]

\* fn mouve in a build without overflow checks (release): the additions wrap
mouve_wrapping(g, x, y) ==
    [panic |-> "no",
     g |-> [g EXCEPT !.offset_x =
                        clamp(wrapping_add(g.offset_x, x), 0, g.width - VIEW_W),
                     !.offset_y =
                        clamp(wrapping_add(g.offset_y, y), 0, g.height - VIEW_H)]]

\* fn mouve(&mut self, x: isize, y: isize): the outcomes the two builds give
mouve(g, x, y) == { mouve_checked(g, x, y), mouve_wrapping(g, x, y) }

\* a mutant: offset_x is not clamped into the new width
change_steps_count_no_clamp(g, count) ==
    IF count % 16 # 0
    THEN [panic |-> "change_steps_count: assertion failed: count % 16 == 0",
          g |-> g]
    ELSE [panic |-> "no",
          g |-> [g EXCEPT !.width = count,
                          !.grid = vec_resize(g.grid, count, None)]]

\* fn change_steps_count(&mut self, count).  With count < 16 the usize
\* subtraction width - 16 underflows after width was assigned: a build with
\* overflow checks panics there, a build without wraps offset_x to 2^w - 16,
\* which is outside the integers of the model; neither is followed further.
change_steps_count(g, count) ==
    IF count % 16 # 0
    THEN [panic |-> "change_steps_count: assertion failed: count % 16 == 0",
          g |-> g]
    ELSE IF count < VIEW_W
    THEN [panic |-> "change_steps_count: width - 16 underflows",
          g |-> [g EXCEPT !.width = count]]
    ELSE [panic |-> "no",
          g |-> [g EXCEPT !.width = count,
                          !.offset_x = clamp(g.offset_x, 0, count - VIEW_W),
                          !.grid = vec_resize(g.grid, count, None)]]

\* fn vaddress(&self, vx, vy) -> (usize, usize), with its two assertions
vaddress(g, vx, vy) ==
    LET x == vx + g.offset_x
        y == vy + g.offset_y
    IN  [x |-> x, y |-> y,
         panic |-> IF ~(x < g.width) THEN "vaddress: assertion failed: x < self.width"
                   ELSE IF ~(y < g.height) THEN "vaddress: assertion failed: y < self.height"
                   ELSE "no"]

\* a mutant: a tick on a column that holds a note at another row adds the
\* note without moving the old one (the column keeps the old row)
tick_no_move(g, vx, vy) ==
    LET a == vaddress(g, vx, vy) IN
    IF a.panic # "no" THEN [panic |-> a.panic, g |-> g]
    ELSE IF is_some(at(g.grid, a.x))
    THEN IF unwrap(at(g.grid, a.x)) = as_u8(a.y)
         THEN [panic |-> "no", g |-> [g EXCEPT !.grid[a.x + 1] = None]]
         ELSE [panic |-> "no", g |-> g]
    ELSE [panic |-> "no", g |-> [g EXCEPT !.grid[a.x + 1] = Some(as_u8(a.y))]]

\* fn tick(&mut self, vx, vy)
tick(g, vx, vy) ==
    LET a == vaddress(g, vx, vy) IN
    IF a.panic # "no" THEN [panic |-> a.panic, g |-> g]
    ELSE IF ~(a.x < Len(g.grid))
    THEN [panic |-> "tick: index out of bounds", g |-> g]
    ELSE IF is_some(at(g.grid, a.x))
    THEN IF unwrap(at(g.grid, a.x)) = as_u8(a.y)
         THEN [panic |-> "no", g |-> [g EXCEPT !.grid[a.x + 1] = None]]
         ELSE [panic |-> "no", g |-> [g EXCEPT !.grid[a.x + 1] = Some(as_u8(a.y))]]
    ELSE [panic |-> "no", g |-> [g EXCEPT !.grid[a.x + 1] = Some(as_u8(a.y))]]

\* Scale::idx_to_degree(i) of the scale provider (an external crate): the
\* degree class of scale index i.  The classes repeat with the octave; the
\* model takes index 0 of an octave for the tonic, 3 for the dominant and 4
\* for the leading tone.
idx_to_degree(i) ==
    CASE i % OCTAVE_NOTE_COUNT = 0 -> "Tonic"
      [] i % OCTAVE_NOTE_COUNT = 3 -> "Dominant"
      [] i % OCTAVE_NOTE_COUNT = 4 -> "Leading"
      [] OTHER                     -> "Other"

\* the match on the degree in viewport: the brightness of a cell without a note
baseline(degree) ==
    CASE degree = "Tonic"    -> 10
      [] degree = "Dominant" -> 6
      [] degree = "Leading"  -> 4
      [] OTHER               -> 0

\* a mutant: the viewport reads the columns from 0, whatever offset_x
viewport_no_offset(g) ==
    [panic |-> "no",
     out |-> [k \in 0 .. (VIEW_H * VIEW_W - 1) |->
                LET i == k \div VIEW_W
                    j == k % VIEW_W
                IN  IF at(g.grid, j) = Some(as_u8(g.offset_y + i))
                    THEN 15
                    ELSE baseline(idx_to_degree(NoteCount - 1 - (g.offset_y + i)))]]

\* fn viewport(&self, grid: &mut [u8]): the 7 * 16 cells written (cell
\* i * 16 + j for row i, column j), or the panic of an index out of range
viewport(g) ==
    IF g.offset_y + (VIEW_H - 1) > NoteCount - 1
    THEN [panic |-> "viewport: attempt to subtract with overflow", out |-> << >>]
    ELSE IF ~(g.offset_x + (VIEW_W - 1) < Len(g.grid))
    THEN [panic |-> "viewport: index out of bounds", out |-> << >>]
    ELSE [panic |-> "no",
          out |-> [k \in 0 .. (VIEW_H * VIEW_W - 1) |->
                     LET i == k \div VIEW_W
                         j == k % VIEW_W
                     IN  IF is_some(at(g.grid, g.offset_x + j))
                            /\ unwrap(at(g.grid, g.offset_x + j)) = as_u8(g.offset_y + i)
                         THEN 15
                         ELSE baseline(idx_to_degree(NoteCount - 1 - (g.offset_y + i)))]]

\* fn current_octave(&self) -> usize
current_octave(g) ==
    clamp((NoteCount - (g.offset_y + 7)) \div OCTAVE_NOTE_COUNT, 0, 8)

\* fn x_in_view(&self, x) -> bool
x_in_view(g, x) == x >= g.offset_x /\ x < g.offset_x + VIEW_W

----------------------------------------------------------------------------
(* Message, the channel *)

MsgTick(x, y)  == << "Tick", x, y >>
MsgResize(n)   == << "Resize", n, 0 >>

----------------------------------------------------------------------------
(* MMMSRenderer *)

\* the sample rate the clock is built with: audio_clock(tempo, 44100)
CLOCK_RATE == 44100

\* let trigger_duration = 0.01, as the fraction 1 / GATE_DIV
GATE_DIV == 100

\* the tempo MMMS::new is given, in beats per minute
Tempo == 120

\* Step positions (f32 in the code) are exact rationals here, counted in
\* units of 1 / POS_DEN of a sixteenth; rounding of f32 is not modelled.
POS_DEN == 15 * CLOCK_RATE * 2

\* self.clock_consumer.beat() * 4.: the clock's beat position is
\* samples / rate * tempo / 60, so four times it is samples * tempo / (15 * rate)
sixteenth_at(n) == n * Tempo * 2

\* 1. / context.analog_sample_rate(), 1. / context.digital_sample_rate()
period(rate) == POS_DEN \div rate

\* sixteenth as usize
pos_floor(p) == p \div POS_DEN

\* sixteenth.fract()
pos_fract(p) == p % POS_DEN

\* steps: SmallVec<[Option<Pitch>; 64]>: the slots the buffer holds inline
STEPS_INLINE == 64

\* MMMSRenderer::new: steps.resize(INITIAL_STEPS, None)
NewSteps == vec_resize(<< >>, INITIAL_STEPS, None)

\* a mutant: a press toggles the step (clears a step that already holds the pitch)
press_toggles(st, x, y) ==
    IF is_some(at(st, x)) /\ unwrap(at(st, x)) = NoteCount - 1 - y
    THEN [panic |-> "no", steps |-> [st EXCEPT ![x + 1] = None]]
    ELSE [panic |-> "no", steps |-> [st EXCEPT ![x + 1] = Some(NoteCount - 1 - y)]]

\* fn press(&mut self, x, y): the step is set to the pitch of scale index
\* note_count - 1 - y.  The index expression underflows for y >= note_count
\* (panic, or a wrapped index that idx_to_pitch refuses so that unwrap panics).
press(st, x, y) ==
    IF ~(y <= NoteCount - 1)
    THEN [panic |-> "press: no pitch for the row", steps |-> st]
    ELSE IF ~(x < Len(st))
    THEN [panic |-> "press: index out of bounds", steps |-> st]
    ELSE [panic |-> "no", steps |-> [st EXCEPT ![x + 1] = Some(NoteCount - 1 - y)]]

\* a mutant: the buffer only ever grows
renderer_resize_grow_only(st, new_size) ==
    IF new_size < Len(st) THEN st ELSE vec_resize(st, new_size, None)

\* fn resize(&mut self, new_size)
renderer_resize(st, new_size) == vec_resize(st, new_size, None)

\* render's match on the received message: the steps after it.  Start and
\* Stop do nothing, TempoChange stores a tempo nothing reads, Scale clears
\* every step.
apply_message(st, msg) ==
    CASE msg[1] = "Tick"   -> press(st, msg[2], msg[3])
      [] msg[1] = "Resize" -> [panic |-> "no", steps |-> renderer_resize(st, msg[2])]
      [] msg[1] = "Scale"  -> [panic |-> "no", steps |-> [i \in 1 .. Len(st) |-> None]]
      [] OTHER             -> [panic |-> "no", steps |-> st]

\* render's match on the received message: the tempo after it (set_tempo)
apply_tempo(t, msg) == IF msg[1] = "TempoChange" THEN msg[2] ELSE t

\* render's match on the received message: the scale after it (set_scale)
apply_scale(sc, msg) == IF msg[1] = "Scale" THEN msg[2] ELSE sc

\* a mutant: a message is received only when another is queued behind it
try_recv_skips_last(ch) ==
    IF Len(ch) < 2 THEN [msg |-> None, rest |-> ch]
    ELSE [msg |-> Some(Head(ch)), rest |-> Tail(ch)]

\* a mutant: the newest message is received first
try_recv_newest(ch) ==
    IF ch = << >> THEN [msg |-> None, rest |-> ch]
    ELSE [msg |-> Some(ch[Len(ch)]), rest |-> SubSeq(ch, 1, Len(ch) - 1)]

\* self.receiver.try_recv(): the oldest message, if any, and what stays queued
try_recv(ch) ==
    IF ch = << >> THEN [msg |-> None, rest |-> ch]
    ELSE [msg |-> Some(Head(ch)), rest |-> Tail(ch)]

\* the Err of self.receiver.try_recv(): "none" when a message is received,
\* Empty while a sender lives, Disconnected once it was dropped
try_recv_err(ch, conn) ==
    IF ch # << >> THEN "none" ELSE IF conn THEN "Empty" ELSE "Disconnected"

\* a mutant: a disconnected channel aborts the callback
on_recv_err_fatal(err) ==
    IF err = "Disconnected" THEN "render: disconnected" ELSE "no"

\* render's match on the Err of try_recv: Empty does nothing, Disconnected
\* prints a line; neither fails
on_recv_err(err) == "no"

\* a mutant: the clock advances by one per call
clock_increment_one(n, frames) == n + 1

\* self.clock_updater.increment(frames): the sample counter after it
clock_increment(n, frames) == n + frames

\* a mutant: the gate stays open for the whole step
trigger_sample_whole_step(st, p) ==
    IF is_some(at(st, pos_floor(p) % Len(st))) THEN 1 ELSE 0

\* the body of the trigger loops: the sample written for position p
trigger_sample(st, p) ==
    IF is_some(at(st, pos_floor(p) % Len(st))) /\ pos_fract(p) * GATE_DIV < POS_DEN
    THEN 1 ELSE 0

\* the trigger sweep: match self.trigger_port
trigger_sweep(st, port, ctx, p0) ==
    CASE port = "AnalogOut" ->
           IF Len(st) = 0
           THEN [panic |-> "render: remainder with a divisor of zero", out |-> << >>]
           ELSE [panic |-> "no",
                 out |-> [i \in 1 .. ctx.analog_frames |->
                            trigger_sample(st, p0 + (i - 1) * period(ctx.analog_rate))]]
      [] port = "Digital" ->
           IF Len(st) = 0
           THEN [panic |-> "render: remainder with a divisor of zero", out |-> << >>]
           ELSE [panic |-> "no",
                 out |-> [i \in 1 .. ctx.digital_frames |->
                            trigger_sample(st, p0 + (i - 1) * period(ctx.digital_rate))]]
      [] OTHER -> [panic |-> "render: wrong ports.", out |-> << >>]

\* a mutant: a step without a note writes the initial voltage
RECURSIVE pitch_frames_no_hold(_, _, _, _, _)
pitch_frames_no_hold(st, prev, ctx, p0, i) ==
    IF i > ctx.analog_frames THEN << >>
    ELSE LET s == at(st, pos_floor(p0 + (i - 1) * period(ctx.analog_rate)) % Len(st))
         IN  << s >> \o pitch_frames_no_hold(st, prev, ctx, p0, i + 1)

\* the body of the pitch loop from frame i on: the samples written, with
\* prev the value of self.prev_pitch when frame i starts
RECURSIVE pitch_frames(_, _, _, _, _)
pitch_frames(st, prev, ctx, p0, i) ==
    IF i > ctx.analog_frames THEN << >>
    ELSE LET s == at(st, pos_floor(p0 + (i - 1) * period(ctx.analog_rate)) % Len(st))
             v == IF is_some(s) THEN s ELSE prev
         IN  << v >> \o pitch_frames(st, v, ctx, p0, i + 1)

\* the pitch sweep: if let BelaPort::AnalogOut(channel) = self.pitch_port.
\* A sample is modelled by the pitch whose control voltage it is (None: the
\* initial 0.0); the assertion value <= 1.0 on the scale provider's voltages
\* is not modelled.
pitch_sweep(st, prev, port, ctx, p0) ==
    IF port = "AnalogOut"
    THEN IF Len(st) = 0
         THEN [panic |-> "render: remainder with a divisor of zero",
               out |-> << >>, prev_pitch |-> prev]
         ELSE LET out == pitch_frames(st, prev, ctx, p0, 1)
              IN  [panic |-> "no", out |-> out,
                   prev_pitch |-> IF out = << >> THEN prev ELSE out[Len(out)]]
    ELSE [panic |-> "render: wtf.", out |-> << >>, prev_pitch |-> prev]

----------------------------------------------------------------------------
(* MMMS::input: the dispatch of an action *)

\* a mutant: the Resize message carries the number of bars
input_dispatch_resize_bars(g, act) ==
    CASE act[1] = "Tick" ->
           LET t == tick(g, act[2], act[3])
               xy == vaddress(t.g, act[2], act[3])
           IN  IF t.panic # "no"
               THEN { [g |-> t.g, panic |-> t.panic, msgs |-> << >>] }
               ELSE IF xy.panic # "no"
               THEN { [g |-> t.g, panic |-> xy.panic, msgs |-> << >>] }
               ELSE { [g |-> t.g, panic |-> "no", msgs |-> << MsgTick(xy.x, xy.y) >>] }
      [] act[1] = "Move" ->
           { [g |-> o.g, panic |-> o.panic, msgs |-> << >>] : o \in mouve(g, act[2], act[3]) }
      [] act[1] = "Resize" ->
           LET c == change_steps_count(g, act[2] * 16)
           IN  IF c.panic # "no"
               THEN { [g |-> c.g, panic |-> c.panic, msgs |-> << >>] }
               ELSE { [g |-> c.g, panic |-> "no", msgs |-> << MsgResize(act[2]) >>] }
      [] OTHER -> { [g |-> g, panic |-> "no", msgs |-> << >>] }

\* the arms of match self.state_tracker.up(..) in MMMS::input: the outcomes
\* (the grid after, a panic if any, the messages sent)
input_dispatch(g, act) ==
    CASE act[1] = "Tick" ->
           LET t == tick(g, act[2], act[3])
               xy == vaddress(t.g, act[2], act[3])
           IN  IF t.panic # "no"
               THEN { [g |-> t.g, panic |-> t.panic, msgs |-> << >>] }
               ELSE IF xy.panic # "no"
               THEN { [g |-> t.g, panic |-> xy.panic, msgs |-> << >>] }
               ELSE { [g |-> t.g, panic |-> "no", msgs |-> << MsgTick(xy.x, xy.y) >>] }
      [] act[1] = "Move" ->
           { [g |-> o.g, panic |-> o.panic, msgs |-> << >>] : o \in mouve(g, act[2], act[3]) }
      [] act[1] = "Resize" ->
           LET c == change_steps_count(g, act[2] * 16)
           IN  IF c.panic # "no"
               THEN { [g |-> c.g, panic |-> c.panic, msgs |-> << >>] }
               ELSE { [g |-> c.g, panic |-> "no", msgs |-> << MsgResize(act[2] * 16) >>] }
      [] OTHER -> { [g |-> g, panic |-> "no", msgs |-> << >>] }

----------------------------------------------------------------------------
(* InstrumentControl::render: the display refresh *)

\* [u8; 128]: the display buffer of the physical grid, 16 columns by 8 rows
DISPLAY_LEN == 128

\* the indices the indicator overlay writes: grid[8 + current_octave] without
\* shift, grid[8 + i] for i in 0..bars with shift
indicator(g, shift) ==
    IF ~shift
    THEN { 8 + current_octave(g) }
    ELSE { 8 + i : i \in 0 .. ((g.width \div 16) - 1) }

\* the indices the playhead overlay visits, in order: i * 16 + pos % 16 for
\* i in 1..self.height + 1, if the position is in view
playhead(g, pos, h) ==
    IF x_in_view(g, pos)
    THEN [i \in 1 .. h |-> i * 16 + (pos % 16)]
    ELSE << >>

\* the buffer after the playhead loop over the indices ix: a cell below 4 is
\* set to 4; the loop stops at the first index outside the buffer
overlay(buf, ix) ==
    [k \in 0 .. (DISPLAY_LEN - 1) |->
        IF /\ \E n \in 1 .. Len(ix) :
                 ix[n] = k /\ \A m \in 1 .. n : ix[m] < DISPLAY_LEN
           /\ buf[k] < 4
        THEN 4 ELSE buf[k]]

----------------------------------------------------------------------------
(* The state after construction *)

NoCall == [op |-> "none", x |-> 0, y |-> 0, matched |-> FALSE, shift |-> FALSE]
NoOp   == [op |-> "new", failed |-> FALSE, a |-> 0, b |-> 0, col |-> 0,
           row |-> 0, old |-> VirtualGrid_new, prev |-> << >>]
NoBlock == [analog_frames |-> 0, analog_rate |-> CLOCK_RATE,
            digital_frames |-> 0, digital_rate |-> CLOCK_RATE,
            audio_frames |-> 0, p0 |-> 0, pending |-> 0, drained |-> 0,
            prev |-> None, n0 |-> 0, recv |-> "none", conn |-> TRUE,
            tempo |-> 0, scale |-> "BNaturalMinorPentatonic"]

\* no display refresh yet
NoFrame == [op |-> "none", old |-> VirtualGrid_new, shift |-> FALSE, pos |-> 0,
            view |-> << >>, marked |-> {}, under |-> << >>, raised |-> {}]

\* BelaPort kinds MMMS::new lets through as the trigger port and render accepts
TriggerPorts == { "AnalogOut", "Digital" }

\* the kinds of BelaPort (an enum of the bela crate): the two the code names
\* and AnalogIn for those only the wildcard arms match
PortKinds == { "AnalogOut", "Digital", "AnalogIn" }

\* the scale MMMSRenderer::new builds
NewScale == "BNaturalMinorPentatonic"

\* MMMS::new's match on pitch_port: anything but an analog output panics
new_panic(tp, pp) ==
    IF pp = "AnalogOut" THEN "no" ELSE "new: Cannot render CV on GPIO."

\* MMMS::new((tp, pp), 16, h, Tempo): GridStateTracker::new(16, 8),
\* VirtualGrid::new(), MMMSRenderer::new, a fresh channel and a clock at 0;
\* or the panic of the match on pitch_port, and then nothing is returned
MMMS_new(tp, pp, h) ==
    /\ buttons = NewButtons
    /\ ret = ActNothing
    /\ held = {}
    /\ last = NoCall
    /\ width = VirtualGrid_new.width
    /\ height = VirtualGrid_new.height
    /\ offset_x = VirtualGrid_new.offset_x
    /\ offset_y = VirtualGrid_new.offset_y
    /\ grid = VirtualGrid_new.grid
    /\ lastOp = NoOp
    /\ chan = << >>
    /\ steps = NewSteps
    /\ prev_pitch = None
    /\ samples = 0
    /\ trigger_port = tp
    /\ pitch_port = pp
    /\ trigger_out = << >>
    /\ pitch_out = << >>
    /\ block = NoBlock
    /\ sent = << >>
    /\ applied = << >>
    /\ renders = 0
    /\ sentAtFirst = 0
    /\ pre = NewSteps
    /\ nOps = 0
    /\ connected = TRUE
    /\ tempo = 0
    /\ scale = NewScale
    /\ blocks = << >>
    /\ self_height = h
    /\ display = << >>
    /\ frame = NoFrame
    /\ panicked = new_panic(tp, pp)

\* the state after a construction that returned, for the physical grid of 8
\* rows: the pitch port is an analog output, the trigger port a kind render
\* accepts
Init == \E tp \in TriggerPorts : MMMS_new(tp, "AnalogOut", TRACKER_HEIGHT)

\* the state after a construction with any pair of port kinds
InitPorts == \E tp \in PortKinds, pp \in PortKinds : MMMS_new(tp, pp, TRACKER_HEIGHT)

SetVG(g) ==
    /\ width' = g.width
    /\ height' = g.height
    /\ offset_x' = g.offset_x
    /\ offset_y' = g.offset_y
    /\ grid' = g.grid

----------------------------------------------------------------------------
(* Actions: the GridStateTracker alone *)

\* state_tracker.down(x, y)
TrackerDown(x, y) ==
    /\ panicked = "no"
    /\ Cardinality(held \cup { << x, y >> }) <= MaxHeld
    /\ buttons' = down(buttons, x, y)
    /\ held' = held \cup { << x, y >> }
    /\ last' = [op |-> "down", x |-> x, y |-> y,
                matched |-> FALSE, shift |-> FALSE]
    /\ UNCHANGED << ret, gridVars, lastOp, renderVars, displayVars, nOps, panicked >>

\* state_tracker.up(x, y)
TrackerUp(x, y) ==
    /\ panicked = "no"
    /\ buttons' = up(buttons, x, y).buttons
    /\ ret' = up(buttons, x, y).action
    /\ held' = held \ { << x, y >> }
    /\ last' = [op |-> "up", x |-> x, y |-> y,
                matched |-> << x, y >> \in held,
                shift |-> << 15, 0 >> \in (held \ { << x, y >> })]
    /\ UNCHANGED << gridVars, lastOp, renderVars, displayVars, nOps, panicked >>

----------------------------------------------------------------------------
(* Actions: the VirtualGrid alone *)

\* history: the operation, its arguments, the logical cell it addressed, the
\* VirtualGrid before it and, when the operation before it was a tick that
\* succeeded, that tick's cell and the content its column had before
GridOp(op, panic, a, b, col, row) ==
    [op |-> op, failed |-> (panic # "no"), a |-> a, b |-> b,
     col |-> col, row |-> row, old |-> VG,
     prev |-> IF lastOp.op = "tick" /\ ~lastOp.failed
              THEN << lastOp.col, lastOp.row, at(lastOp.old.grid, lastOp.col) >>
              ELSE << >>]

\* virtual_grid.tick(vx, vy)
GridTick(vx, vy) ==
    /\ panicked = "no"
    /\ LET t == tick(VG, vx, vy)
           a == vaddress(VG, vx, vy)
       IN  /\ SetVG(t.g)
           /\ panicked' = t.panic
           /\ lastOp' = GridOp("tick", t.panic, vx, vy, a.x, a.y)
    /\ nOps' = nOps + 1
    /\ UNCHANGED << trackerVars, renderVars, displayVars >>

\* virtual_grid.mouve(dx, dy)
GridMouve(dx, dy) ==
    /\ panicked = "no"
    /\ \E o \in mouve(VG, dx, dy) :
          /\ SetVG(o.g)
          /\ panicked' = o.panic
          /\ lastOp' = GridOp("mouve", o.panic, dx, dy, 0, 0)
    /\ nOps' = nOps + 1
    /\ UNCHANGED << trackerVars, renderVars, displayVars >>

\* virtual_grid.change_steps_count(n)
GridResize(n) ==
    /\ panicked = "no"
    /\ LET c == change_steps_count(VG, n)
       IN  /\ SetVG(c.g)
           /\ panicked' = c.panic
           /\ lastOp' = GridOp("resize", c.panic, n, 0, 0, 0)
    /\ nOps' = nOps + 1
    /\ UNCHANGED << trackerVars, renderVars, displayVars >>

----------------------------------------------------------------------------
(* Actions: the control plane's dispatch and the render callback *)

\* MMMS::input, from the action the tracker returned on
Dispatch(act) ==
    /\ panicked = "no"
    /\ connected
    /\ \E o \in input_dispatch(VG, act) :
          /\ SetVG(o.g)
          /\ panicked' = o.panic
          /\ chan' = chan \o o.msgs
          /\ sent' = sent \o o.msgs
    /\ nOps' = nOps + 1
    /\ UNCHANGED << trackerVars, lastOp, steps, prev_pitch, samples,
                    trigger_port, pitch_port, trigger_out, pitch_out, block,
                    applied, renders, sentAtFirst, pre, connected, tempo,
                    scale, blocks, displayVars >>

\* history: one more render call of f frames returned
CountBlock(b, f) ==
    IF f \in DOMAIN b THEN [b EXCEPT ![f] = @ + 1] ELSE b @@ (f :> 1)

\* MMMS::input(MonomeEvent::GridKey { x, y, direction }): a press goes to the
\* tracker; a release goes to the tracker and the action it returns is
\* dispatched
Input(x, y, dir) ==
    /\ panicked = "no"
    /\ connected
    /\ IF dir = "Down"
       THEN /\ Cardinality(held \cup { << x, y >> }) <= MaxHeld
            /\ buttons' = down(buttons, x, y)
            /\ held' = held \cup { << x, y >> }
            /\ last' = [op |-> "down", x |-> x, y |-> y,
                        matched |-> FALSE, shift |-> FALSE]
            /\ UNCHANGED << ret, gridVars, chan, sent, panicked >>
       ELSE /\ buttons' = up(buttons, x, y).buttons
            /\ ret' = up(buttons, x, y).action
            /\ held' = held \ { << x, y >> }
            /\ last' = [op |-> "up", x |-> x, y |-> y,
                        matched |-> << x, y >> \in held,
                        shift |-> << 15, 0 >> \in (held \ { << x, y >> })]
            /\ \E o \in input_dispatch(VG, up(buttons, x, y).action) :
                  /\ SetVG(o.g)
                  /\ panicked' = o.panic
                  /\ chan' = chan \o o.msgs
                  /\ sent' = sent \o o.msgs
    /\ UNCHANGED << lastOp, steps, prev_pitch, samples, trigger_port,
                    pitch_port, trigger_out, pitch_out, block, applied,
                    renders, sentAtFirst, pre, connected, tempo, scale,
                    blocks, displayVars, nOps >>

\* the first panic of a sequence of outcomes
first_panic(ps) ==
    IF \E i \in 1 .. Len(ps) : ps[i] # "no"
    THEN ps[CHOOSE i \in 1 .. Len(ps) :
               ps[i] # "no" /\ \A j \in 1 .. (i - 1) : ps[j] = "no"]
    ELSE "no"

\* InstrumentRenderer::render(context): one message at most is received and
\* applied, the trigger and pitch samples of the block are written, the clock
\* advances by the block's frames
Render(ctx) ==
    /\ panicked = "no"
    /\ \E r \in { try_recv(chan) } :
       \E a \in { IF is_some(r.msg) THEN apply_message(steps, unwrap(r.msg))
                  ELSE [panic |-> "no", steps |-> steps] } :
       \E t \in { trigger_sweep(a.steps, trigger_port, ctx, sixteenth_at(samples)) } :
       \E pi \in { pitch_sweep(a.steps, prev_pitch, pitch_port, ctx,
                               sixteenth_at(samples)) } :
       \E panic \in { first_panic(<< on_recv_err(try_recv_err(chan, connected)),
                                      a.panic, t.panic, pi.panic >>) } :
           /\ chan' = r.rest
           /\ tempo' = IF is_some(r.msg) THEN apply_tempo(tempo, unwrap(r.msg))
                       ELSE tempo
           /\ scale' = IF is_some(r.msg) THEN apply_scale(scale, unwrap(r.msg))
                       ELSE scale
           /\ applied' = IF is_some(r.msg) THEN Append(applied, unwrap(r.msg))
                         ELSE applied
           /\ steps' = a.steps
           /\ panicked' = panic
           /\ trigger_out' = IF panic = "no" THEN t.out ELSE << >>
           /\ pitch_out' = IF panic = "no" THEN pi.out ELSE << >>
           /\ prev_pitch' = IF panic = "no" THEN pi.prev_pitch ELSE prev_pitch
           /\ samples' = IF panic = "no"
                         THEN clock_increment(samples, ctx.audio_frames)
                         ELSE samples
           /\ blocks' = IF panic = "no" THEN CountBlock(blocks, ctx.audio_frames)
                        ELSE blocks
           /\ block' = [analog_frames |-> ctx.analog_frames,
                        analog_rate |-> ctx.analog_rate,
                        digital_frames |-> ctx.digital_frames,
                        digital_rate |-> ctx.digital_rate,
                        audio_frames |-> ctx.audio_frames,
                        p0 |-> sixteenth_at(samples), pending |-> Len(chan),
                        drained |-> Len(chan) - Len(r.rest), prev |-> prev_pitch,
                        n0 |-> samples, recv |-> try_recv_err(chan, connected),
                        conn |-> connected, tempo |-> tempo, scale |-> scale]
    /\ renders' = renders + 1
    /\ sentAtFirst' = IF renders = 0 THEN Len(sent) ELSE sentAtFirst
    /\ pre' = steps
    /\ UNCHANGED << trackerVars, gridVars, lastOp, trigger_port, pitch_port,
                    sent, nOps, connected, displayVars >>

\* InstrumentControl::render(grid): the playhead position is read from the
\* clock, the buffer is zeroed, the viewport is written to rows 1..7, the
\* indicator to the cells from 8 on, the playhead over the rows 1..self.height.
\* history: frame keeps the VirtualGrid and shift shown, the playhead
\* position, the viewport's cells, the indices the indicator wrote, the
\* buffer under the playhead overlay and the indices the overlay visited
Refresh ==
    /\ panicked = "no"
    /\ connected
    /\ \E pos \in { IF width = 0 THEN 0
                     ELSE pos_floor(sixteenth_at(samples)) % width } :
       \E v \in { viewport(VG) } :
       \E marked \in { indicator(VG, shift_down(buttons)) } :
       \E ix \in { playhead(VG, pos, self_height) } :
       \E under \in { [k \in 0 .. (DISPLAY_LEN - 1) |->
                          IF v.panic # "no" THEN 0
                          ELSE IF k \in marked THEN 15
                          ELSE IF k >= 16 THEN v.out[k - 16]
                          ELSE 0] } :
          /\ panicked' =
                first_panic(<< IF width = 0
                               THEN "refresh: remainder with a divisor of zero"
                               ELSE "no",
                               v.panic,
                               IF \E k \in marked : k >= DISPLAY_LEN
                               THEN "refresh: index out of bounds" ELSE "no",
                               IF \E n \in 1 .. Len(ix) : ix[n] >= DISPLAY_LEN
                               THEN "refresh: index out of bounds" ELSE "no" >>)
          /\ display' = IF width = 0 \/ v.panic # "no" THEN under
                        ELSE overlay(under, ix)
          /\ frame' = [op |-> "refresh", old |-> VG,
                       shift |-> shift_down(buttons), pos |-> pos,
                       view |-> v.out, marked |-> marked, under |-> under,
                       raised |-> { ix[n] : n \in 1 .. Len(ix) }]
    /\ UNCHANGED << trackerVars, gridVars, lastOp, renderVars, self_height,
                    nOps >>

\* the MMMS is dropped, and its Sender with it: the channel is disconnected
DropSender ==
    /\ panicked = "no"
    /\ connected
    /\ connected' = FALSE
    /\ UNCHANGED << trackerVars, gridVars, lastOp, chan, steps, prev_pitch,
                    samples, trigger_port, pitch_port, trigger_out, pitch_out,
                    block, sent, applied, renders, sentAtFirst, pre, tempo,
                    scale, blocks, displayVars, nOps, panicked >>

----------------------------------------------------------------------------
(* Inputs and specifications *)

\* at most this many VirtualGrid operations in a run of SpecGrid
MaxGridOps == 4

\* at most this many dispatched actions and render calls in a run of Spec
MaxOps == 3
MaxRenders == 3

\* at most this many actions dispatched before playback in a run of SpecSweep
MaxSweepOps == 2

\* the render calls of SpecSweep cover a bar: 16 steps of 15 * 44100 / Tempo samples
SweepSamples == 88500

\* the keys pressed and released in SpecTracker
KeyCols == { 0, 8, 9, 10, 11, 15 }
KeyRows == { 0, 1, 7 }

\* the viewport cells ticked
TickCols == { 0, 15 }
TickRows == { 0, 6 }

\* the pans requested of the VirtualGrid: those of the tracker, large ones and
\* the extremes of isize
Pans == { << -16, 0 >>, << 16, 0 >>, << 0, -1 >>, << 0, 1 >>,
          << -1000, -1000 >>, << 1000, 1000 >>,
          << ISIZE_MAX, ISIZE_MAX >>, << -ISIZE_MAX - 1, -ISIZE_MAX - 1 >> }

\* the step counts requested of the VirtualGrid
Counts == { 0, 16, 24, 32, 64, 128 }

\* the actions dispatched in Spec: ticks of viewport cells, a pan to the
\* right and one up, the four resize presets
SysActs == { ActTick(x, y) : x \in TickCols, y \in TickRows }
           \cup { ActMove(16, 0), ActMove(0, -1) }
           \cup { ActResize(1), ActResize(2), ActResize(4), ActResize(8) }

\* the actions dispatched before playback in SpecSweep
SweepActs == { ActResize(1), ActTick(0, 0) }

\* the actions dispatched before playback in SpecHold: notes of two pitches
\* on steps 0 and 1
HoldActs == { ActTick(0, 0), ActTick(1, 6) }

\* the render calls of SpecHold cover three steps of 15 * 44100 / Tempo samples
HoldSamples == 16600

Ctx(audio_frames, analog_frames, analog_rate, digital_frames, digital_rate) ==
    [audio_frames |-> audio_frames, analog_frames |-> analog_frames,
     analog_rate |-> analog_rate, digital_frames |-> digital_frames,
     digital_rate |-> digital_rate]

\* the blocks of the audio host in Spec: 16 audio and digital frames, 8 analog
\* channels at half the audio rate
Contexts == { Ctx(16, 8, 22050, 16, 44100) }

\* the blocks of SpecSweep: 128 audio frames, 8 analog channels
SweepContexts == { Ctx(128, 64, 22050, 128, 44100) }

\* at most this many dispatched actions and render calls in a run of SpecLive
MaxLiveOps == 2
MaxLiveRenders == 3

\* the actions dispatched in SpecLive
LiveActs == { ActTick(0, 0), ActResize(1), ActMove(16, 0) }

\* the blocks of SpecLive: 16 or 32 audio frames
LiveContexts == { Ctx(16, 8, 22050, 16, 44100), Ctx(32, 16, 22050, 32, 44100) }

\* at most this many VirtualGrid operations before the refresh in SpecView
MaxViewOps == 3

\* the pans and step counts requested in SpecView
ViewPans == { << -16, 0 >>, << 16, 0 >>, << 0, -1 >>, << 0, 1 >> }
ViewCounts == { 16, 64 }

\* at most this many messages sent before the refresh in SpecDisplay
MaxDisplaySent == 2

\* the keys of SpecDisplay: pan up (resize to 4 bars with shift), shift
DisplayKeys == { << 10, 0 >>, << 15, 0 >> }

\* at most this many dispatched actions in a run of SpecFair, and this many
\* render calls beyond one per message sent
MaxFairOps == 3
MaxFairRenders == 1

NextTracker ==
    \E x \in KeyCols, y \in KeyRows : TrackerDown(x, y) \/ TrackerUp(x, y)

NextGrid ==
    \/ nOps < MaxGridOps /\ \E vx \in TickCols, vy \in TickRows : GridTick(vx, vy)
    \/ nOps < MaxGridOps /\ \E d \in Pans : GridMouve(d[1], d[2])
    \/ nOps < MaxGridOps /\ \E n \in Counts : GridResize(n)

Next ==
    \/ nOps < MaxOps /\ \E act \in SysActs : Dispatch(act)
    \/ renders < MaxRenders /\ \E ctx \in Contexts : Render(ctx)

NextSweep ==
    \/ renders = 0 /\ nOps < MaxSweepOps /\ \E act \in SweepActs : Dispatch(act)
    \/ samples < SweepSamples /\ \E ctx \in SweepContexts : Render(ctx)

NextLive ==
    \/ nOps < MaxLiveOps /\ \E act \in LiveActs : Dispatch(act)
    \/ DropSender
    \/ renders < MaxLiveRenders /\ \E ctx \in LiveContexts : Render(ctx)
    \/ Refresh

NextPorts ==
    \/ nOps < MaxLiveOps /\ \E act \in LiveActs : Dispatch(act)
    \/ renders < MaxLiveRenders /\ \E ctx \in LiveContexts : Render(ctx)

NextView ==
    \/ /\ frame.op = "none" /\ nOps < MaxViewOps
       /\ \E vx \in TickCols, vy \in TickRows : GridTick(vx, vy)
    \/ /\ frame.op = "none" /\ nOps < MaxViewOps
       /\ \E d \in ViewPans : GridMouve(d[1], d[2])
    \/ /\ frame.op = "none" /\ nOps < MaxViewOps
       /\ \E n \in ViewCounts : GridResize(n)
    \/ Refresh

NextDisplay ==
    \/ /\ frame.op = "none"
       /\ \E k \in DisplayKeys : Input(k[1], k[2], "Down")
    \/ /\ frame.op = "none"
       /\ \E k \in DisplayKeys :
             /\ up(buttons, k[1], k[2]).action[1] = "Resize"
                   => Len(sent) < MaxDisplaySent
             /\ Input(k[1], k[2], "Up")
    \/ Refresh

\* the audio host's call of the render callback for the next block
FairRender ==
    /\ renders < MaxFairRenders + Len(sent)
    /\ \E ctx \in Contexts : Render(ctx)

NextFair ==
    \/ nOps < MaxFairOps /\ \E act \in LiveActs : Dispatch(act)
    \/ FairRender

NextHold ==
    \/ renders = 0 /\ nOps < MaxSweepOps /\ \E act \in HoldActs : Dispatch(act)
    \/ samples < HoldSamples /\ \E ctx \in SweepContexts : Render(ctx)

\* the control plane's dispatch and the render callback, interleaved
Spec == Init /\ [][Next]_vars

\* the GridStateTracker under key presses and releases
SpecTracker == Init /\ [][NextTracker]_vars

\* the VirtualGrid under its operations
SpecGrid == Init /\ [][NextGrid]_vars

\* edits before playback, then render calls over a bar
SpecSweep == Init /\ [][NextSweep]_vars

\* dispatch, display refresh and drop of the control plane, render calls of
\* two block sizes
SpecLive == Init /\ [][NextLive]_vars

\* dispatches and render calls after a construction with any pair of ports
SpecPorts == InitPorts /\ [][NextPorts]_vars

\* operations of the VirtualGrid, then a display refresh
SpecView == Init /\ [][NextView]_vars

\* key presses and releases, then a display refresh
SpecDisplay == Init /\ [][NextDisplay]_vars

\* dispatches interleaved with the render callback, which the audio host
\* calls for every block: it is not postponed forever
SpecFair == Init /\ [][NextFair]_vars /\ WF_vars(FairRender)

\* notes placed before playback, then render calls over three steps
SpecHold == Init /\ [][NextHold]_vars

----------------------------------------------------------------------------
(* The claims *)

\* C1 (SpecTracker): a release of a musical-row cell (1 <= y <= 7) that was
\* pressed since its last release returns Tick(x, y - 1).
C1_DownUpTicks ==
    (last.op = "up" /\ last.matched /\ last.y \in 1 .. 7)
        => ret = ActTick(last.x, last.y - 1)

\* C2 as stated (SpecTracker): a release of any cell, control row included,
\* that no press of the cell precedes returns Nothing and does not fail.
C2_StrayUpNothing ==
    (last.op = "up" /\ ~last.matched)
        => (ret = ActNothing /\ panicked = "no")

\* C2 as amended (SpecTracker): a release that no press of the cell precedes
\* does not fail, and returns Nothing on the musical rows and on the control
\* row outside columns 8..11; on columns 8..11 of the control row it returns
\* the pan or resize action of the column, as a release after a press does.
C2_StrayUpAmended ==
    (last.op = "up" /\ ~last.matched)
        => /\ panicked = "no"
           /\ IF last.y = 0 /\ last.x \in 8 .. 11
              THEN ret[1] \in { "Move", "Resize" }
              ELSE ret = ActNothing

\* C2: a stray release on the last musical row, another key being held
C2_Witness ==
    last.op = "up" /\ ~last.matched /\ last.y = 7 /\ held # {}

\* what the control row returns: pans of dx columns and dy rows without
\* shift, the resize presets with shift
ControlRowAction(x, shift, dx, dy) ==
    IF ~shift
    THEN CASE x = 8  -> ActMove(-dx, 0)
           [] x = 9  -> ActMove(dx, 0)
           [] x = 10 -> ActMove(0, -dy)
           [] x = 11 -> ActMove(0, dy)
           [] OTHER  -> ActNothing
    ELSE CASE x = 8  -> ActResize(1)
           [] x = 9  -> ActResize(2)
           [] x = 10 -> ActResize(4)
           [] x = 11 -> ActResize(8)
           [] OTHER  -> ActNothing

\* C3 as stated (SpecTracker): a release on the control row returns, without
\* shift, a pan by one viewport (16 columns, 7 rows) left, right, up, down
\* for columns 8..11; with shift Resize(1), (2), (4), (8); Nothing elsewhere.
C3_ControlRowViewport ==
    (last.op = "up" /\ last.y = 0)
        => ret = ControlRowAction(last.x, last.shift, 16, 7)

\* C3 as amended (SpecTracker): as stated, but the vertical pans are by one
\* row: Move(0, -1) for column 10 and Move(0, 1) for column 11.
C3_ControlRow ==
    (last.op = "up" /\ last.y = 0)
        => ret = ControlRowAction(last.x, last.shift, 16, 1)

\* C3: column 11 released while shift is held
C3_Witness ==
    last.op = "up" /\ last.y = 0 /\ last.x = 11 /\ last.shift
        /\ ret = ActResize(8)

\* every column holds no note or one note, on a row of the grid
GridTyped ==
    panicked = "no"
        => /\ Len(grid) = width
           /\ \A c \in 0 .. (width - 1) :
                 \/ at(grid, c) = None
                 \/ \E r \in 0 .. (height - 1) : at(grid, c) = Some(r)

\* a tick changes its column only
TickFrame ==
    (lastOp.op = "tick" /\ ~lastOp.failed)
        => /\ width = lastOp.old.width
           /\ height = lastOp.old.height
           /\ offset_x = lastOp.old.offset_x
           /\ offset_y = lastOp.old.offset_y
           /\ \A c \in 0 .. (width - 1) :
                 c # lastOp.col => at(grid, c) = at(lastOp.old.grid, c)

\* a tick after a tick of the same column on another row: one note, on the new row
TickMoves ==
    (lastOp.op = "tick" /\ ~lastOp.failed /\ lastOp.prev # << >>
       /\ lastOp.prev[1] = lastOp.col /\ lastOp.prev[2] # lastOp.row)
        => at(grid, lastOp.col) = Some(lastOp.row)

\* the last two operations were ticks of the same logical cell
TickedTwice ==
    /\ lastOp.op = "tick" /\ ~lastOp.failed /\ lastOp.prev # << >>
    /\ lastOp.prev[1] = lastOp.col /\ lastOp.prev[2] = lastOp.row

\* C4 as stated (SpecGrid): at most one note per column; tick (c, r1) then
\* tick (c, r2) leaves one note in c, on r2; tick (c, r) twice returns the
\* column to the content it had before; a tick changes nothing but its column.
C4_TickTwiceRestores ==
    /\ GridTyped
    /\ TickFrame
    /\ TickMoves
    /\ TickedTwice => at(grid, lastOp.col) = lastOp.prev[3]

\* C4 as amended (SpecGrid): as stated, but tick (c, r) twice returns the
\* column to the content it had before only if it was empty or held its note
\* on r; if it held a note on another row, the column ends empty.
C4_Tick ==
    /\ GridTyped
    /\ TickFrame
    /\ TickMoves
    /\ TickedTwice =>
          at(grid, lastOp.col) =
              IF lastOp.prev[3] = None \/ lastOp.prev[3] = Some(lastOp.row)
              THEN lastOp.prev[3] ELSE None

\* C4: tick (c, r1) then tick (c, r2), r1 # r2
C4_Witness ==
    /\ lastOp.op = "tick" /\ ~lastOp.failed /\ lastOp.prev # << >>
    /\ lastOp.prev[1] = lastOp.col /\ lastOp.prev[2] # lastOp.row
    /\ at(grid, lastOp.col) = Some(lastOp.row)

\* C5 (SpecGrid): after any pans, resizes to 16, 32, 64 or 128 steps and
\* ticks, the offsets are within the viewport bounds and no request failed.
C5_ViewportBounds ==
    \/ lastOp.op = "resize" /\ lastOp.a \notin { 16, 32, 64, 128 }
    \/ /\ panicked = "no"
       /\ ~lastOp.failed
       /\ 0 <= offset_x /\ offset_x <= width - 16
       /\ 0 <= offset_y /\ offset_y <= height - 7

\* change_steps_count(n) was applied: the width is n, the columns that stay
\* keep their content, the columns added are empty, offset_x is clamped
ResizeApplied ==
    /\ ~lastOp.failed
    /\ panicked = "no"
    /\ width = lastOp.a
    /\ Len(grid) = lastOp.a
    /\ \A c \in 0 .. (Min(lastOp.old.width, lastOp.a) - 1) :
          at(grid, c) = at(lastOp.old.grid, c)
    /\ \A c \in lastOp.old.width .. (lastOp.a - 1) : at(grid, c) = None
    /\ offset_x = Min(lastOp.old.offset_x, lastOp.a - 16)
    /\ offset_y = lastOp.old.offset_y
    /\ height = lastOp.old.height

\* change_steps_count(n) was rejected: it failed and changed nothing
ResizeRejected ==
    /\ lastOp.failed
    /\ panicked # "no"
    /\ VG = lastOp.old

C7_Fifo ==
    /\ sent = applied \o chan
    /\ Len(applied) <= renders
    /\ renders > 0 => block.drained = (IF block.pending > 0 THEN 1 ELSE 0)
    /\ (renders > 0 /\ panicked = "no")
          => steps = IF block.pending > 0
                     THEN apply_message(pre, applied[Len(applied)]).steps
                     ELSE pre
    /\ renders <= (IF renders = 0 THEN Len(sent) ELSE sentAtFirst)
          => applied = SubSeq(sent, 1, renders)

\* C7: two different messages sent before the first render call, two calls
C7_Witness ==
    /\ renders = 2 /\ sentAtFirst = 2 /\ Len(applied) = 2
    /\ applied[1] # applied[2]

\* C8 (Spec): with every message drained, a step holds a note exactly if its
\* column of the VirtualGrid does, and then the pitch of scale index
\* note_count - 1 - row.
C8_StepsMirrorGrid ==
    (chan = << >> /\ panicked = "no")
        => \A c \in 0 .. (width - 1) :
              /\ c < Len(steps)
              /\ is_some(at(steps, c)) <=> is_some(at(grid, c))
              /\ is_some(at(grid, c))
                    => at(steps, c) = Some(NoteCount - 1 - unwrap(at(grid, c)))

\* C9 (Spec): with every message drained the step buffer is as long as the
\* grid is wide; a drained Resize(n) makes it n long, keeps the slots that
\* stay and fills the new ones with no note.
C9_StepsLength ==
    /\ chan = << >> => Len(steps) = width
    /\ (renders > 0 /\ block.drained = 1
          /\ applied[Len(applied)][1] = "Resize")
          => LET n == applied[Len(applied)][2] IN
             /\ Len(steps) = n
             /\ \A c \in 0 .. (Min(Len(pre), n) - 1) : at(steps, c) = at(pre, c)
             /\ \A c \in Len(pre) .. (n - 1) : at(steps, c) = None

\* C9: a drained Resize grew a buffer that holds a note
C9_Witness ==
    /\ chan = << >> /\ renders > 0 /\ block.drained = 1
    /\ applied[Len(applied)][1] = "Resize"
    /\ Len(steps) > Len(pre)
    /\ \E c \in 0 .. (Len(pre) - 1) : is_some(at(pre, c))

\* the trigger port's frames and rate in the last block, the position of frame i
TriggerFrames ==
    IF trigger_port = "AnalogOut" THEN block.analog_frames ELSE block.digital_frames
TriggerRate ==
    IF trigger_port = "AnalogOut" THEN block.analog_rate ELSE block.digital_rate
FramePos(i) == block.p0 + (i - 1) * (POS_DEN \div TriggerRate)

\* C10 (SpecSweep): the trigger sample of a frame at position p is on exactly
\* if step floor(p) mod length holds a note and the fraction of p is below
\* 0.01; with 16 steps and a note on step 0 only, it is on only on step 0.
C10_Trigger ==
    (renders > 0 /\ panicked = "no")
        => /\ Len(trigger_out) = TriggerFrames
           /\ \A i \in 1 .. Len(trigger_out) :
                 LET p == FramePos(i)
                     k == (p \div POS_DEN) % Len(steps)
                     gate == 100 * (p % POS_DEN) < POS_DEN
                 IN  /\ trigger_out[i] = (IF is_some(steps[k + 1]) /\ gate THEN 1 ELSE 0)
                     /\ (Len(steps) = 16 /\ \A c \in 2 .. 16 : steps[c] = None)
                           => (trigger_out[i] = 1 => (k = 0 /\ gate))

\* C10: 16 steps, a note on step 0 only, the trigger on in the second bar
C10_Witness ==
    /\ renders > 0 /\ panicked = "no"
    /\ Len(steps) = 16 /\ is_some(steps[1]) /\ \A c \in 2 .. 16 : steps[c] = None
    /\ \E i \in 1 .. Len(trigger_out) :
          trigger_out[i] = 1 /\ FramePos(i) >= 16 * POS_DEN
    /\ \E i \in 1 .. Len(trigger_out) : trigger_out[i] = 0

\* the step the pitch loop reads on frame i of the last block
PitchStep(i) ==
    at(steps, pos_floor(block.p0 + (i - 1) * (POS_DEN \div block.analog_rate))
                 % Len(steps))

\* the pitch samples of the last block: the note of the frame's step, or the
\* sample before it (the voltage remembered at the block's start for frame 1);
\* the voltage remembered after the block is the last sample
PitchHeld ==
    (renders > 0 /\ panicked = "no")
        => /\ Len(pitch_out) = block.analog_frames
           /\ \A i \in 1 .. Len(pitch_out) :
                 pitch_out[i] = IF is_some(PitchStep(i)) THEN PitchStep(i)
                                ELSE IF i = 1 THEN block.prev
                                ELSE pitch_out[i - 1]
           /\ prev_pitch = IF pitch_out = << >> THEN block.prev
                           ELSE pitch_out[Len(pitch_out)]

\* a step of the system: a render call starts from the voltage remembered,
\* and the voltage remembered changes only in a render call with a frame
\* whose step holds a note, to the note of the last such frame
PitchKept ==
    /\ renders' # renders => block'.prev = prev_pitch
    /\ prev_pitch' # prev_pitch
          => /\ renders' = renders + 1
             /\ \E i \in 1 .. Len(pitch_out') :
                   /\ is_some(PitchStep(i)') /\ prev_pitch' = PitchStep(i)'
                   /\ \A j \in (i + 1) .. Len(pitch_out') : ~is_some(PitchStep(j)')

\* C11 (SpecHold): on every frame of every render call the pitch sample is
\* the note of the current step, which becomes the voltage remembered, or,
\* if the step holds no note, the voltage remembered (initially 0); the
\* voltage remembered changes on no other occasion.
C11_SampleHold == []PitchHeld /\ [][PitchKept]_vars

\* C11: a block that starts on a step without a note and holds the voltage
\* of a note played in an earlier block
C11_Witness ==
    /\ renders > 0 /\ panicked = "no" /\ pitch_out # << >>
    /\ is_some(block.prev) /\ ~is_some(PitchStep(1))
    /\ pitch_out[1] = block.prev
    /\ prev_pitch = block.prev
    /\ is_some(steps[1]) /\ is_some(steps[2]) /\ steps[1] # steps[2]
    /\ block.prev = steps[2]

\* the frames of the render calls counted in b, over the frame counts D
RECURSIVE SumFrames(_, _)
SumFrames(b, D) ==
    IF D = {} THEN 0
    ELSE LET f == CHOOSE f \in D : TRUE
         IN  f * b[f] + SumFrames(b, D \ { f })

\* the counter is the sum of the frame counts of the render calls that
\* returned; the last of them read the position at the counter it started
\* from and added its frame count
ClockSum ==
    /\ samples = SumFrames(blocks, DOMAIN blocks)
    /\ (renders > 0 /\ panicked = "no")
          => /\ samples = block.n0 + block.audio_frames
             /\ block.p0 = sixteenth_at(block.n0)

\* a step of the system: the counter never decreases and changes only in a
\* render call, by the call's frame count
ClockStep ==
    /\ samples' >= samples
    /\ samples' # samples
          => /\ renders' = renders + 1
             /\ samples' = samples + block'.audio_frames
             /\ block'.n0 = samples
    /\ (renders' = renders + 1 /\ panicked' = "no")
          => samples' = samples + block'.audio_frames

\* C12 (SpecLive): a render call that returns advances the sample counter
\* by its frame count, once, after the position was read; no control-plane
\* operation changes the counter; it never decreases and is the sum of the
\* frame counts of the render calls so far.
C12_SharedClock == []ClockSum /\ [][ClockStep]_vars

\* C12: three render calls of both block sizes, a dispatch and a refresh
C12_Witness ==
    /\ renders = 3 /\ panicked = "no" /\ nOps > 0 /\ frame.op = "refresh"
    /\ DOMAIN blocks = { 16, 32 }
    /\ samples = 64

\* the trigger sample of frame i of the last block, from the steps st
GateOf(st, i) ==
    LET p == FramePos(i)
    IN  IF is_some(at(st, (p \div POS_DEN) % Len(st)))
           /\ 100 * (p % POS_DEN) < POS_DEN
        THEN 1 ELSE 0

\* C13 (SpecLive): a render call that finds the channel empty and
\* disconnected does not fail, leaves steps, scale and tempo as they were,
\* writes the trigger and pitch samples of every frame from those steps and
\* advances the clock by the frame count; the messages sent before the
\* disconnect are drained one per call in send order before it is observed.
C13_Disconnected ==
    /\ sent = applied \o chan
    /\ renders > 0
          => /\ block.drained = (IF block.pending > 0 THEN 1 ELSE 0)
             /\ block.recv = "Disconnected" <=> (block.pending = 0 /\ ~block.conn)
    /\ (renders > 0 /\ block.recv = "Disconnected")
          => /\ panicked = "no"
             /\ applied = sent
             /\ steps = pre /\ scale = block.scale /\ tempo = block.tempo
             /\ Len(trigger_out) = TriggerFrames
             /\ \A i \in 1 .. Len(trigger_out) : trigger_out[i] = GateOf(pre, i)
             /\ PitchHeld
             /\ samples = block.n0 + block.audio_frames

\* C13: two messages drained, then the disconnect observed on a block that
\* plays a note
C13_Witness ==
    /\ renders = 3 /\ block.recv = "Disconnected" /\ panicked = "no"
    /\ Len(applied) = 2 /\ applied[1] # applied[2]
    /\ \E i \in 1 .. Len(trigger_out) : trigger_out[i] = 1
    /\ \E i \in 1 .. Len(pitch_out) : is_some(pitch_out[i])

\* C14 (SpecPorts): for every pair of port kinds, MMMS::new fails, or no
\* render call of the renderer it returns fails because of a port kind.
C14_PortsValidated ==
    panicked \notin { "render: wrong ports.", "render: wtf." }

\* the brightness of a cell without a note on logical row r: 10 on a tonic
\* row, 6 on a dominant row, 4 on a leading-tone row, 0 on any other
BaselineOf(r) ==
    LET d == idx_to_degree(NoteCount - 1 - r)
    IN  IF d = "Tonic" THEN 10 ELSE IF d = "Dominant" THEN 6
        ELSE IF d = "Leading" THEN 4 ELSE 0

\* C15 (SpecView): after viewport(buffer), cell (row i, column j) of the
\* 16x7 buffer is 15 exactly if logical column offset_x + j holds a note on
\* logical row offset_y + i, and otherwise the baseline of that row's degree
\* class; the VirtualGrid is unchanged.
C15_Viewport ==
    frame.op = "refresh"
        => /\ VG = frame.old
           /\ DOMAIN frame.view = 0 .. 111
           /\ \A i \in 0 .. 6, j \in 0 .. 15 :
                 LET note == at(grid, offset_x + j) = Some(offset_y + i)
                     cell == frame.view[i * 16 + j]
                 IN  /\ cell = 15 <=> note
                     /\ ~note => cell = BaselineOf(offset_y + i)

\* C15: a viewport panned to the right that shows a note, with a note left
\* of it, over rows of all four baselines
C15_Witness ==
    /\ frame.op = "refresh" /\ offset_x = 16
    /\ \E k \in 0 .. 111 : frame.view[k] = 15
    /\ \E c \in 0 .. 15 : is_some(at(grid, c))
    /\ \A b \in { 0, 4, 6, 10 } : \E k \in 0 .. 111 : frame.view[k] = b

\* the sample of the clock that frame i of the last block falls on, for a
\* port of the given rate
SampleOf(i, rate) == block.n0 + (i - 1) * (CLOCK_RATE \div rate)

\* four times the clock's beat position at sample n, in units of 1 / POS_DEN
\* of a sixteenth: n / CLOCK_RATE seconds at Tempo beats per minute
FourBeats(n) == (n * Tempo * 4 * (POS_DEN \div CLOCK_RATE)) \div 60

\* C16 (SpecSweep): with no message pending, the step position of frame i of
\* a block is four times the beat position at the frame's sample, and the
\* trigger and pitch samples are those a rendering of one frame per block
\* gives: the streams do not depend on how the frames are cut into blocks.
C16_BlockIndependent ==
    (renders > 0 /\ panicked = "no" /\ block.pending = 0)
        => /\ \A i \in 1 .. Len(trigger_out) :
                 LET p == FourBeats(SampleOf(i, TriggerRate))
                 IN  /\ FramePos(i) = p
                     /\ trigger_out[i] =
                           (IF is_some(at(steps, (p \div POS_DEN) % Len(steps)))
                               /\ 100 * (p % POS_DEN) < POS_DEN
                            THEN 1 ELSE 0)
           /\ \A i \in 1 .. Len(pitch_out) :
                 LET p == FourBeats(SampleOf(i, block.analog_rate))
                     s == at(steps, (p \div POS_DEN) % Len(steps))
                 IN  is_some(s) => pitch_out[i] = s

\* C17 (SpecDisplay): on a display refresh, for every offset_y and with shift
\* held or not, the octave or bar-count indicator writes cells of the
\* control row only (indices 0..15) and changes no cell of the musical rows.
C17_IndicatorInControlRow ==
    (frame.op = "refresh" /\ frame.view # << >>)
        => /\ frame.marked \subseteq 0 .. 15
           /\ \A k \in 16 .. 127 : frame.under[k] = frame.view[k - 16]

\* C18 (SpecLive): on a display refresh with the playhead on logical column
\* P, if P is in view the cells of physical column P - offset_x on rows 1..7
\* are raised to at least 4 and no other cell is changed by the overlay; if
\* P is out of view the overlay changes nothing; every index written is
\* inside the 128 cells of the buffer, for the height of 8 given at
\* construction.
C18_Playhead ==
    frame.op = "refresh"
        => /\ panicked = "no"
           /\ frame.raised \subseteq 0 .. 127
           /\ \A k \in 0 .. 127 :
                 display[k] =
                    IF /\ frame.old.offset_x <= frame.pos
                       /\ frame.pos < frame.old.offset_x + 16
                       /\ \E r \in 1 .. 7 :
                             k = r * 16 + (frame.pos - frame.old.offset_x)
                       /\ frame.under[k] < 4
                    THEN 4 ELSE frame.under[k]

\* C19 (Spec): after any dispatches (the resize presets of 1, 2, 4 and 8
\* bars included) and render calls, the step buffer is no longer than its
\* inline capacity of 64 slots.
C19_StepsCapacity == Len(steps) <= STEPS_INLINE

\* the last render call applied a Tick message
TickApplied ==
    renders > 0 /\ block.drained = 1 /\ applied[Len(applied)][1] = "Tick"

\* C20 (Spec): in every interleaving of dispatched ticks, pans and resizes
\* with render calls, a Tick(column, row) applied by render has its column
\* below the length of the step buffer and its row below the note count, the
\* step buffer is never empty, and no render call fails on an index.
C20_IndexSafe ==
    /\ Len(steps) > 0
    /\ TickApplied
          => /\ applied[Len(applied)][2] < Len(pre)
             /\ applied[Len(applied)][3] < NoteCount
    /\ panicked \notin { "press: index out of bounds",
                         "press: no pitch for the row",
                         "render: remainder with a divisor of zero" }

\* C20: a tick of the last column of 32, sent before a resize to 16 steps,
\* is applied from a backlog of two while the buffer is still 32 long
C20_Witness ==
    /\ TickApplied /\ panicked = "no"
    /\ applied[Len(applied)][2] = 31 /\ Len(pre) = 32
    /\ block.pending = 2
    /\ chan = << MsgResize(16) >>
    /\ width = 16

\* a step of the system: a render call on a queue that is not empty applies
\* its head and leaves its tail, so every queued message moves one place
\* forward; any other step leaves the queue as it is or appends to it
DrainStep ==
    /\ (renders' # renders /\ chan # << >>)
          => /\ chan' = Tail(chan)
             /\ applied' = Append(applied, Head(chan))
    /\ renders' = renders
          => /\ applied' = applied
             /\ Len(chan') >= Len(chan)
             /\ SubSeq(chan', 1, Len(chan)) = chan

\* C21 (SpecFair): with render called again and again, every message sent
\* is eventually drained and applied, whatever the backlog and while more
\* messages are sent; each render call moves a queued message one place
\* forward, so the message at place k is applied by the k-th call at the
\* latest.
C21_Delivery ==
    /\ \A n \in 1 .. MaxFairOps :
          (Len(sent) >= n) ~> (Len(applied) >= n /\ applied[n] = sent[n])
    /\ [][DrainStep]_vars

\* C21: two messages queued before the first render call and a third sent
\* later, all three applied by three calls
C21_Witness ==
    /\ sentAtFirst = 2 /\ Len(sent) = 3 /\ applied = sent
    /\ renders = 3 /\ chan = << >> /\ panicked = "no"

============================================================================
